---- MODULE Spec2Model ----
(***************************************************************************)
(* A model of jwcrypto/jwk.py: the JWK key entity (construction with the   *)
(* three-way classification of its fields, export, and the resolution of   *)
(* key material per operation) and the JWKSet collection.                  *)
(***************************************************************************)
EXTENDS Integers, Sequences, FiniteSets, TLC

VARIABLES
    phase,      \* "new" | "constructed" | "failed": the life of the JWK object
    kwargs,     \* the field mapping handed to JWK.__init__ (name -> value)
    params,     \* self._params
    key,        \* self._key
    unknown,    \* self._unknown
    result,     \* the outcome of the last call on the key
    raised,     \* whether an earlier export or get_op_key call on the key raised
    heap,       \* JWKSet model: the objects that exist (id -> object)
    jwkset,     \* JWKSet model: the members of the set (object ids)
    inserted,   \* JWKSet model: the ids add() accepted so far (history)
    setResult   \* JWKSet model: the outcome of the last call on the set

vars == <<phase, kwargs, params, key, unknown, result, raised,
          heap, jwkset, inserted, setResult>>

keyVars == <<phase, kwargs, params, key, unknown, result, raised>>
setVars == <<heap, jwkset, inserted, setResult>>

----------------------------------------------------------------------------
(* Bounds of the model.                                                     *)

\* how many names outside every registry a field mapping may carry
MaxUnknown == 2
\* the longest key_ops list
MaxOps == 2
\* how many objects the JWKSet model allocates
MaxObjs == 3

----------------------------------------------------------------------------
(* Python values: None, str and list (of str), tagged with their type; v    *)
(* holds the items of a list, and the one string of a str.                  *)

None == [t |-> "none", v |-> <<>>]
Str(s) == [t |-> "str", v |-> <<s>>]
List(l) == [t |-> "list", v |-> l]

\* the string of a str value
StrOf(x) == x.v[1]

\* Python truthiness: None, "" and [] are false.
Truthy(x) ==
    CASE x.t = "none" -> FALSE
      [] x.t = "str" -> StrOf(x) # ""
      [] x.t = "list" -> Len(x.v) > 0

\* Python ==, between values of the types above.
PyEq(a, b) == a.t = b.t /\ a.v = b.v

\* The characters of the strings the program iterates over, searches in or
\* decodes (Python iterates a str one character at a time).
Chars(s) ==
    CASE s = "" -> <<>>
      [] s = "sign" -> <<"s", "i", "g", "n">>
      [] s = "verify" -> <<"v", "e", "r", "i", "f", "y">>
      [] s = "encrypt" -> <<"e", "n", "c", "r", "y", "p", "t">>
      [] s = "decrypt" -> <<"d", "e", "c", "r", "y", "p", "t">>
      [] s = "wrapKey" -> <<"w", "r", "a", "p", "K", "e", "y">>
      [] s = "unwrapKey" -> <<"u", "n", "w", "r", "a", "p", "K", "e", "y">>
      [] s = "deriveKey" -> <<"d", "e", "r", "i", "v", "e", "K", "e", "y">>
      [] s = "deriveBits" ->
            <<"d", "e", "r", "i", "v", "e", "B", "i", "t", "s">>
      [] s = "AQ" -> <<"A", "Q">>
      [] s = "Ag" -> <<"A", "g">>
      [] s = "Aw" -> <<"A", "w">>
      [] s = "BA" -> <<"B", "A">>
      [] s = "BQ" -> <<"B", "Q">>
      [] s = "AQAB" -> <<"A", "Q", "A", "B">>

\* `for x in value`: the elements of a list, the characters of a str.
Iter(x) == IF x.t = "list" THEN x.v ELSE Chars(StrOf(x))

\* `item in value`: membership in a list, substring of a str.
PyIn(item, x) ==
    IF x.t = "list"
    THEN \E i \in DOMAIN x.v : x.v[i] = item
    ELSE LET hay == Chars(StrOf(x))
             needle == Chars(item)
         IN \E i \in 1..(Len(hay) - Len(needle) + 1) :
                SubSeq(hay, i, i + Len(needle) - 1) = needle

----------------------------------------------------------------------------
(* Python dicts: a sequence of <<name, value>> pairs with distinct names,   *)
(* in insertion order.                                                      *)

DictHas(d, k) == \E i \in DOMAIN d : d[i][1] = k

DictGet(d, k, default) ==
    IF DictHas(d, k)
    THEN d[CHOOSE i \in DOMAIN d : d[i][1] = k][2]
    ELSE default

DictSet(d, k, v) ==
    IF DictHas(d, k)
    THEN [i \in DOMAIN d |-> IF d[i][1] = k THEN <<k, v>> ELSE d[i]]
    ELSE Append(d, <<k, v>>)

DictKeys(d) == [i \in DOMAIN d |-> d[i][1]]

KeySet(d) == {d[i][1] : i \in DOMAIN d}

RECURSIVE DictUpdate(_, _)
DictUpdate(d, e) ==
    IF e = <<>> THEN d
    ELSE DictUpdate(DictSet(d, e[1][1], e[1][2]), Tail(e))

\* the mapping a dict stands for
AsMap(d) == [k \in KeySet(d) |-> DictGet(d, k, None)]

----------------------------------------------------------------------------
(* Registries.                                                              *)

JWKTypesRegistry == {"EC", "RSA", "oct"}

JWKValuesRegistry(kty) ==
    CASE kty = "EC" -> <<"crv", "x", "y", "d">>
      [] kty = "RSA" -> <<"n", "e", "d", "p", "q", "dp", "dq", "qi">>
      [] kty = "oct" -> <<"k">>

JWKParamsRegistry ==
    <<"kty", "use", "key_ops", "alg", "kid", "x5u", "x5c", "x5t", "x5t#S256">>

JWKEllipticCurveRegistry == {"P-256", "P-384", "P-521"}

JWKOperationsRegistry ==
    <<"sign", "verify", "encrypt", "decrypt", "wrapKey", "unwrapKey",
      "deriveKey", "deriveBits">>

Range(s) == {s[i] : i \in DOMAIN s}

----------------------------------------------------------------------------
(* Outcomes: a returned value, or a raised exception with its arguments.    *)

Ok(v) == [err |-> "none", args |-> <<>>, value |-> v]
Raise(e, a) == [err |-> e, args |-> a, value |-> None]

MsgUnknownParams == "Unknown key parameters"
MsgNoKeyValues == "No Key Values found"
MsgDuplicate == "Duplicate values in key_ops"
MsgIncompatible == "Incompatible use and key_ops values specified at the same time"
MsgCurveMismatch == "Curve requested differs from key curve"
MsgUnknownCurve == "Unknown Elliptic Curve Type"
MsgNotEC == "Not an EC key"

----------------------------------------------------------------------------
(* JWK.__init__                                                             *)

\* `while name in names: names.remove(name)`
RemoveAll(names, name) == SelectSeq(names, LAMBDA x : x # name)

\* `for name in list(registry.keys()): if name in kwargs: ...`: one pass of
\* the classification, moving the registry's names from kwargs into d.
RECURSIVE ExtractPass(_, _, _, _)
ExtractPass(registry, kw, d, names) ==
    IF registry = <<>> THEN [d |-> d, names |-> names]
    ELSE LET name == Head(registry)
         IN IF DictHas(kw, name)
            THEN ExtractPass(Tail(registry), kw,
                             DictSet(d, name, DictGet(kw, name, None)),
                             RemoveAll(names, name))
            ELSE ExtractPass(Tail(registry), kw, d, names)

\* `for name in names: ...; while name in names: names.remove(name)`: the
\* loop walks the list by index while its body shrinks the same list.
RECURSIVE UnknownPass(_, _, _, _)
UnknownPass(i, kw, d, names) ==
    IF i > Len(names) THEN [d |-> d, names |-> names]
    ELSE LET name == names[i]
         IN UnknownPass(i + 1, kw,
                        DictSet(d, name, DictGet(kw, name, None)),
                        RemoveAll(names, name))

\* `kty not in JWKTypesRegistry`, negated
KtyRegistered(kty) == kty.t = "str" /\ StrOf(kty) \in JWKTypesRegistry

\* a constructor that does not look at the material it extracted
NoKeyValuesUnchecked(k) == FALSE

\* `len(self._key) == 0`
NoKeyValues(k) == Len(k) = 0

\* the key_ops check: some element of key_ops does not occur exactly once
KeyOpsDuplicate(ops) ==
    LET items == Iter(ops)
    IN \E i \in DOMAIN items :
           Cardinality({j \in DOMAIN items : items[j] = items[i]}) # 1

sigl == <<"sign", "verify">>

\* a signing-key exclusion list without the derive operations
enclWithoutDerive == <<"encrypt", "decrypt", "wrapKey", "unwrapKey">>

encl ==
    <<"encrypt", "decrypt", "wrapKey", "unwrapKey", "deriveKey", "deriveBits">>

\* the use/key_ops consistency check
UseKeyOpsIncompatible(use, ops) ==
    IF PyEq(use, Str("sig"))
    THEN \E i \in DOMAIN encl : PyIn(encl[i], ops)
    ELSE IF PyEq(use, Str("enc"))
    THEN \E i \in DOMAIN sigl : PyIn(sigl[i], ops)
    ELSE FALSE

NoObject(r) == [err |-> r.err, args |-> r.args, value |-> r.value,
                params |-> <<>>, key |-> <<>>, unknown |-> <<>>]

\* JWK(**kw): the exception raised, or the object's three dicts.
JWK_init(kw) ==
    LET p1 == ExtractPass(JWKParamsRegistry, kw, <<>>, DictKeys(kw))
        kty == DictGet(p1.d, "kty", None)
    IN IF ~KtyRegistered(kty)
       THEN NoObject(Raise("InvalidJWKType", <<kty>>))
       ELSE
       LET p2 == ExtractPass(JWKValuesRegistry(StrOf(kty)), kw, <<>>, p1.names)
           p3 == UnknownPass(1, kw, <<>>, p2.names)
       IN IF Len(p3.names) # 0
          THEN NoObject(Raise("InvalidJWKValue", <<MsgUnknownParams>>))
          ELSE IF NoKeyValues(p2.d)
          THEN NoObject(Raise("InvalidJWKValue", <<MsgNoKeyValues>>))
          ELSE IF DictHas(p1.d, "key_ops")
                  /\ KeyOpsDuplicate(DictGet(p1.d, "key_ops", None))
          THEN NoObject(Raise("InvalidJWKValue", <<MsgDuplicate>>))
          ELSE IF DictHas(p1.d, "use") /\ DictHas(p1.d, "key_ops")
                  /\ UseKeyOpsIncompatible(DictGet(p1.d, "use", None),
                                           DictGet(p1.d, "key_ops", None))
          THEN NoObject(Raise("InvalidJWKValue", <<MsgIncompatible>>))
          ELSE [err |-> "none", args |-> <<>>, value |-> None,
                params |-> p1.d, key |-> p2.d, unknown |-> p3.d]

----------------------------------------------------------------------------
(* The codec (jwcrypto.common): JSON text and base64url.                    *)

\* The JSON rendering of a value.
JsonValue(x) ==
    CASE x.t = "str" -> [j |-> "string", s |-> <<StrOf(x)>>]
      [] x.t = "list" -> [j |-> "array", s |-> x.v]
      [] x.t = "none" -> [j |-> "null", s |-> <<>>]

\* The value a JSON rendering parses to.
PyValue(j) ==
    CASE j.j = "string" -> Str(j.s[1])
      [] j.j = "array" -> List(j.s)
      [] j.j = "null" -> None

\* json_encode of a dict: a text, the members of one JSON object in the
\* dict's order
json_encode(d) ==
    [t |-> "json", v |-> [i \in DOMAIN d |-> <<d[i][1], JsonValue(d[i][2])>>]]

\* json_decode of a JSON object: a dict (a repeated member: the last wins)
RECURSIVE json_decode_from(_, _)
json_decode_from(text, d) ==
    IF text = <<>> THEN d
    ELSE json_decode_from(Tail(text),
                          DictSet(d, text[1][1], PyValue(text[1][2])))

json_decode(text) == json_decode_from(text.v, <<>>)

\* the value of a base64url digit
B64Index(c) ==
    CASE c = "A" -> 0
      [] c = "B" -> 1
      [] c = "Q" -> 16
      [] c = "g" -> 32
      [] c = "w" -> 48

RECURSIVE B64Bits(_, _)
B64Bits(cs, acc) ==
    IF cs = <<>> THEN acc ELSE B64Bits(Tail(cs), acc * 64 + B64Index(cs[1]))

\* int(hexlify(base64url_decode(n)), 16): the big-endian number of the
\* decoded octets (the bits beyond the last whole octet are dropped)
decode_int(n) ==
    LET cs == Chars(StrOf(n))
        bits == B64Bits(cs, 0)
    IN CASE Len(cs) % 4 = 0 -> bits
         [] Len(cs) % 4 = 2 -> bits \div 16
         [] Len(cs) % 4 = 3 -> bits \div 4

----------------------------------------------------------------------------
(* JWK.export                                                               *)

\* an export that leaves the extension fields out
ExportDictWithoutUnknown(p, k, u) == DictUpdate(DictUpdate(<<>>, p), k)

\* d = dict(); d.update(_params); d.update(_key); d.update(_unknown)
ExportDict(p, k, u) == DictUpdate(DictUpdate(DictUpdate(<<>>, p), k), u)

JWK_export(p, k, u) == Ok(json_encode(ExportDict(p, k, u)))

----------------------------------------------------------------------------
(* JWK._check_constraints                                                   *)

\* `if use and use != usage`
UsageRejected(use, usage) == Truthy(use) /\ ~PyEq(use, Str(usage))

\* `if not isinstance(ops, list): ops = [ops]`
AsList(ops) == IF ops.t = "list" THEN ops ELSE List(<<StrOf(ops)>>)

\* `if ops: ...; if operation not in ops`
OperationRejected(ops, operation) ==
    Truthy(ops) /\ ~PyIn(StrOf(operation), AsList(ops))

check_constraints(p, usage, operation) ==
    LET use == DictGet(p, "use", None)
        ops == DictGet(p, "key_ops", None)
    IN IF UsageRejected(use, usage)
       THEN Raise("InvalidJWKUsage", <<Str(usage), use>>)
       ELSE IF OperationRejected(ops, operation)
       THEN Raise("InvalidJWKOperation", <<operation, AsList(ops)>>)
       ELSE Ok(None)

----------------------------------------------------------------------------
(* Material resolution                                                      *)

\* k[name] for each name in turn: the first name k lacks raises KeyError.
RECURSIVE FirstMissing(_, _)
FirstMissing(k, names) ==
    IF names = <<>> THEN ""
    ELSE IF ~DictHas(k, Head(names)) THEN Head(names)
    ELSE FirstMissing(k, Tail(names))

Num(k, name) == decode_int(DictGet(k, name, None))

\* rsa.RSAPublicNumbers(e, n)
rsa_pub(k) ==
    LET miss == FirstMissing(k, <<"e", "n">>)
    IN IF miss # "" THEN Raise("KeyError", <<miss>>)
       ELSE Ok([kind |-> "RSAPublicNumbers",
                numbers |-> <<Num(k, "e"), Num(k, "n")>>])

\* rsa.RSAPrivateNumbers(p, q, d, dp, dq, qi, public_numbers)
rsa_pri(k) ==
    LET miss == FirstMissing(k, <<"p", "q", "d", "dp", "dq", "qi">>)
    IN IF miss # "" THEN Raise("KeyError", <<miss>>)
       ELSE LET pub == rsa_pub(k)
            IN IF pub.err # "none" THEN pub
               ELSE Ok([kind |-> "RSAPrivateNumbers",
                        numbers |-> <<Num(k, "p"), Num(k, "q"), Num(k, "d"),
                                      Num(k, "dp"), Num(k, "dq"),
                                      Num(k, "qi")>> \o pub.value.numbers])

\* an unknown curve reported as a key-type error
UnknownCurveAsType == Raise("InvalidJWKType", <<MsgUnknownCurve>>)

\* `raise InvalidJWKValue('Unknown Elliptic Curve Type')`
UnknownCurve == Raise("InvalidJWKValue", <<MsgUnknownCurve>>)

\* JWK.get_curve
get_curve(p, k, arg) ==
    IF ~PyEq(DictGet(p, "kty", None), Str("EC"))
    THEN Raise("InvalidJWKType", <<MsgNotEC>>)
    ELSE IF ~DictHas(k, "crv") THEN Raise("KeyError", <<"crv">>)
    ELSE LET crv == DictGet(k, "crv", None)
         IN IF Truthy(arg) /\ ~PyEq(crv, arg)
            THEN Raise("InvalidJWKValue", <<MsgCurveMismatch>>)
            ELSE IF PyEq(crv, Str("P-256")) THEN Ok("SECP256R1")
            ELSE IF PyEq(crv, Str("P-384")) THEN Ok("SECP384R1")
            ELSE IF PyEq(crv, Str("P-521")) THEN Ok("SECP521R1")
            ELSE UnknownCurve

\* ec.EllipticCurvePublicNumbers(x, y, curve)
ec_pub(p, k, curve) ==
    LET miss == FirstMissing(k, <<"x", "y">>)
    IN IF miss # "" THEN Raise("KeyError", <<miss>>)
       ELSE LET c == get_curve(p, k, curve)
            IN IF c.err # "none" THEN c
               ELSE Ok([kind |-> "EllipticCurvePublicNumbers",
                        numbers |-> <<Num(k, "x"), Num(k, "y")>>,
                        curve |-> c.value])

\* ec.EllipticCurvePrivateNumbers(d, public_numbers)
ec_pri(p, k, curve) ==
    IF ~DictHas(k, "d") THEN Raise("KeyError", <<"d">>)
    ELSE LET pub == ec_pub(p, k, curve)
         IN IF pub.err # "none" THEN pub
            ELSE Ok([kind |-> "EllipticCurvePrivateNumbers",
                     numbers |-> <<Num(k, "d")>> \o pub.value.numbers,
                     curve |-> pub.value.curve])

\* numbers.public_key(backend) / numbers.private_key(backend): the provider's
\* opaque handle for the assembled numbers
Handle(r, what) ==
    IF r.err # "none" THEN r ELSE Ok([handle |-> what, of |-> r.value])

get_public_key(p, k, arg) ==
    LET kty == DictGet(p, "kty", None)
    IN IF PyEq(kty, Str("oct")) THEN Ok(DictGet(k, "k", None))
       ELSE IF PyEq(kty, Str("RSA")) THEN Handle(rsa_pub(k), "public_key")
       ELSE IF PyEq(kty, Str("EC"))
       THEN Handle(ec_pub(p, k, arg), "public_key")
       ELSE Raise("NotImplementedError", <<>>)

get_private_key(p, k, arg) ==
    LET kty == DictGet(p, "kty", None)
    IN IF PyEq(kty, Str("oct")) THEN Ok(DictGet(k, "k", None))
       ELSE IF PyEq(kty, Str("RSA")) THEN Handle(rsa_pri(k), "private_key")
       ELSE IF PyEq(kty, Str("EC"))
       THEN Handle(ec_pri(p, k, arg), "private_key")
       ELSE Raise("NotImplementedError", <<>>)

\* the check, and the material only when the check passed
Checked(c, material) == IF c.err # "none" THEN c ELSE material

\* JWK.get_op_key
get_op_key(p, k, operation, arg) ==
    LET validops == [t |-> "list",
                     v |-> <<DictGet(p, "key_ops",
                                     List(JWKOperationsRegistry))>>]
    IN IF operation.t = "none"
       THEN IF PyEq(DictGet(p, "kty", None), Str("oct"))
            THEN Ok(DictGet(k, "k", None))
            ELSE Raise("InvalidJWKOperation", <<operation, validops>>)
       ELSE IF PyEq(operation, Str("sign"))
       THEN Checked(check_constraints(p, "sig", operation),
                    get_private_key(p, k, arg))
       ELSE IF PyEq(operation, Str("verify"))
       THEN Checked(check_constraints(p, "sig", operation),
                    get_public_key(p, k, arg))
       ELSE IF PyEq(operation, Str("encrypt"))
               \/ PyEq(operation, Str("wrapKey"))
       THEN Checked(check_constraints(p, "enc", operation),
                    get_public_key(p, k, arg))
       ELSE IF PyEq(operation, Str("decrypt"))
               \/ PyEq(operation, Str("unwrapKey"))
       THEN Checked(check_constraints(p, "enc", operation),
                    get_private_key(p, k, arg))
       ELSE Raise("NotImplementedError", <<>>)

----------------------------------------------------------------------------
(* The field mappings the model constructs keys from.                       *)

EmptyMap == [n \in {} |-> None]

\* names outside every registry
ExtNames == <<"foo", "bar", "baz", "qux">>
UnknownNames == {ExtNames[i] : i \in 1..MaxUnknown}

MaterialNames ==
    <<"crv", "x", "y", "d", "n", "e", "p", "q", "dp", "dq", "qi", "k">>

\* one value per field name (base64url for the material)
FieldVal(n) ==
    CASE n = "k" -> Str("AQ")
      [] n = "n" -> Str("BQ")
      [] n = "e" -> Str("AQAB")
      [] n = "d" -> Str("Aw")
      [] n = "p" -> Str("Ag")
      [] n = "q" -> Str("Aw")
      [] n = "dp" -> Str("AQ")
      [] n = "dq" -> Str("Ag")
      [] n = "qi" -> Str("AQ")
      [] n = "x" -> Str("BA")
      [] n = "y" -> Str("BQ")
      [] n = "kid" -> Str("k1")
      [] n = "alg" -> Str("RS256")
      [] OTHER -> Str("ext")

Fields(S) == [n \in S |-> FieldVal(n)]

KtyChoices ==
    {EmptyMap} \cup {("kty" :> Str(t)) : t \in JWKTypesRegistry \cup {"bad"}}

UseChoices ==
    {EmptyMap} \cup {("use" :> Str(u)) : u \in {"sig", "enc", "", "other"}}

OpNames == Range(JWKOperationsRegistry)

\* key_ops: absent, a lone operation name, or a list of up to MaxOps names
KeyOpsChoices ==
    {EmptyMap}
    \cup {("key_ops" :> Str(o)) : o \in OpNames}
    \cup {("key_ops" :> List(l)) :
              l \in UNION {[1..n -> OpNames] : n \in 0..MaxOps}}

CrvChoices ==
    {EmptyMap}
    \cup {("crv" :> Str(c)) : c \in JWKEllipticCurveRegistry \cup {"P-999"}}

\* any kty, with material of several types, unknown names and metadata
ClassifyInputs ==
    {a @@ b @@ c @@ d :
        a \in KtyChoices,
        b \in {Fields(S) : S \in SUBSET {"k", "n", "d", "x"}},
        c \in {Fields(S) : S \in SUBSET UnknownNames},
        d \in {Fields(S) : S \in SUBSET {"kid", "alg"}}}

\* an oct key with every use and every key_ops
OpsInputs ==
    {("kty" :> Str("oct")) @@ Fields({"k"}) @@ u @@ o :
        u \in UseChoices, o \in KeyOpsChoices}

\* an RSA key with every subset of the RSA material
RSAInputs ==
    {("kty" :> Str("RSA")) @@ m @@ u :
        m \in {Fields(S) : S \in SUBSET Range(JWKValuesRegistry("RSA"))},
        u \in {EmptyMap, "use" :> Str("sig"), "use" :> Str("enc")}}

\* an EC key with every subset of the EC material and every curve
ECInputs ==
    {("kty" :> Str("EC")) @@ m @@ c @@ u @@ o :
        m \in {Fields(S) : S \in SUBSET {"x", "y", "d"}},
        c \in CrvChoices,
        u \in {EmptyMap, "use" :> Str("sig"), "use" :> Str("enc")},
        o \in {EmptyMap, "key_ops" :> List(<<"verify">>)}}

Inputs == ClassifyInputs \cup OpsInputs \cup RSAInputs \cup ECInputs

Reverse(s) == [i \in DOMAIN s |-> s[Len(s) + 1 - i]]

\* The dict a call JWK(**m) receives: the mapping m with its names in one of
\* two orders.  The passes of __init__ remove names by value, so only the
\* relative order of the names they leave matters.
DictOf(m, rev) ==
    LET all == JWKParamsRegistry \o MaterialNames \o ExtNames
        here == SelectSeq(all, LAMBDA n : n \in DOMAIN m)
        names == IF rev THEN Reverse(here) ELSE here
    IN [i \in DOMAIN names |-> <<names[i], m[names[i]]>>]

\* the operations and curve hints a caller passes to get_op_key
Operations ==
    {None} \cup {Str(o) : o \in OpNames \ {"deriveBits"}}

\* Only the EC branch reads the hint: a key of another type is given one
\* absent and one present hint.
Hints(kty) ==
    IF PyEq(kty, Str("EC"))
    THEN {None, Str(""), Str("P-256"), Str("P-384"), Str("P-999")}
    ELSE {None, Str("P-256")}

----------------------------------------------------------------------------
(* The key: construction, then any sequence of export and get_op_key.       *)

Outcome(call, operation, arg, r) ==
    [call |-> call, operation |-> operation, arg |-> arg,
     err |-> r.err, args |-> r.args, value |-> r.value]

\* whether the call that gave r, or one before it, raised
Raised(r) == raised \/ (r.call \in {"export", "get_op_key"} /\ r.err # "none")

NoSet ==
    /\ heap = <<>>
    /\ jwkset = {}
    /\ inserted = {}
    /\ setResult = [call |-> "none", elem |-> None, before |-> {},
                    err |-> "none", value |-> None]

Init ==
    /\ phase = "new"
    /\ kwargs = EmptyMap
    /\ params = <<>>
    /\ key = <<>>
    /\ unknown = <<>>
    /\ result = Outcome("none", None, None, Ok(None))
    /\ raised = FALSE
    /\ NoSet

Construct ==
    /\ phase = "new"
    /\ \E m \in Inputs, rev \in BOOLEAN :
           LET r == JWK_init(DictOf(m, rev))
           IN /\ kwargs' = m
              /\ phase' = IF r.err = "none" THEN "constructed" ELSE "failed"
              /\ params' = r.params
              /\ key' = r.key
              /\ unknown' = r.unknown
              /\ result' = Outcome("init", None, None, r)
    /\ raised' = FALSE
    /\ UNCHANGED setVars

Export ==
    /\ phase = "constructed"
    /\ result' = Outcome("export", None, None,
                         JWK_export(params, key, unknown))
    /\ raised' = Raised(result)
    /\ UNCHANGED <<phase, kwargs, params, key, unknown>>
    /\ UNCHANGED setVars

GetOpKey ==
    /\ phase = "constructed"
    /\ \E operation \in Operations, arg \in Hints(DictGet(params, "kty", None)) :
           result' = Outcome("get_op_key", operation, arg,
                             get_op_key(params, key, operation, arg))
    /\ raised' = Raised(result)
    /\ UNCHANGED <<phase, kwargs, params, key, unknown>>
    /\ UNCHANGED setVars

Next == Construct \/ Export \/ GetOpKey

Spec == Init /\ [][Next]_vars

----------------------------------------------------------------------------
(* JWKSet: a set of objects, compared by identity.                          *)

\* a reference to the i-th JWK object allocated
Ref(i) == [t |-> "JWK", v |-> i]

\* elements that are not JWK objects
NonKeys == {[t |-> "int", v |-> 0], [t |-> "int", v |-> 7]}

\* the kid arguments of get_key
Kids == {Str("k1"), Str("k2"), Str("k3")}

\* the field mappings the set's keys are constructed from
SetKeyInputs ==
    {("kty" :> Str("oct")) @@ Fields({"k"}) @@ i :
        i \in {EmptyMap, "kid" :> Str("k1"), "kid" :> Str("k2")}}

\* an add that takes whatever it is given
IsInstanceAny(elem) == TRUE

\* isinstance(elem, JWK)
IsInstanceJWK(elem) == elem.t = "JWK"

\* the key_id property
key_id(h, elem) == DictGet(h[elem.v].params, "kid", None)

\* JWKSet.add
JWKSet_add(members, elem) ==
    IF ~IsInstanceJWK(elem)
    THEN [set |-> members, out |-> Raise("TypeError", <<>>)]
    ELSE [set |-> members \cup {elem}, out |-> Ok(None)]

\* JWKSet.get_key, iterating the members in the given order
RECURSIVE JWKSet_get_key(_, _, _)
JWKSet_get_key(h, order, kid) ==
    IF order = <<>> THEN Ok(None)
    ELSE IF PyEq(key_id(h, Head(order)), kid) THEN Ok(Head(order))
    ELSE JWKSet_get_key(h, Tail(order), kid)

\* the orders in which a set may be iterated
Orders(S) ==
    {f \in [1..Cardinality(S) -> S] :
        \A i, j \in 1..Cardinality(S) : f[i] = f[j] => i = j}

SetInit ==
    /\ phase = "new"
    /\ kwargs = EmptyMap
    /\ params = <<>>
    /\ key = <<>>
    /\ unknown = <<>>
    /\ result = Outcome("none", None, None, Ok(None))
    /\ raised = FALSE
    /\ heap = <<>>
    /\ jwkset = {}
    /\ inserted = {}
    /\ setResult = [call |-> "none", elem |-> None, before |-> {},
                    err |-> "none", value |-> None]

\* a JWK object comes to exist
SetNewKey ==
    /\ Len(heap) < MaxObjs
    /\ \E m \in SetKeyInputs :
           LET r == JWK_init(DictOf(m, FALSE))
           IN /\ r.err = "none"
              /\ heap' = Append(heap, [params |-> r.params, key |-> r.key,
                                       unknown |-> r.unknown])
    /\ UNCHANGED <<jwkset, inserted, setResult>>
    /\ UNCHANGED keyVars

SetAdd ==
    /\ \E elem \in {Ref(i) : i \in DOMAIN heap} \cup NonKeys :
           LET r == JWKSet_add(jwkset, elem)
           IN /\ jwkset' = r.set
              /\ inserted' = IF r.out.err = "none"
                             THEN inserted \cup {elem} ELSE inserted
              /\ setResult' = [call |-> "add", elem |-> elem,
                               before |-> jwkset,
                               err |-> r.out.err, value |-> r.out.value]
    /\ UNCHANGED heap
    /\ UNCHANGED keyVars

SetGetKey ==
    /\ \E kid \in Kids, order \in Orders(jwkset) :
           LET r == JWKSet_get_key(heap, order, kid)
           IN setResult' = [call |-> "get_key", elem |-> kid,
                            before |-> jwkset,
                            err |-> r.err, value |-> r.value]
    /\ UNCHANGED <<heap, jwkset, inserted>>
    /\ UNCHANGED keyVars

SetNext == SetNewKey \/ SetAdd \/ SetGetKey

SpecSet == SetInit /\ [][SetNext]_vars

----------------------------------------------------------------------------
(* The vocabulary of the properties, read off the supplied field mapping.   *)

Declared(n) == n \in DOMAIN kwargs

RegisteredKty == Declared("kty") /\ StrOf(kwargs["kty"]) \in {"EC", "RSA", "oct"}

\* the supplied names of the metadata registry, of the declared type's
\* vocabulary, and the rest
MetaSupplied == DOMAIN kwargs \cap Range(JWKParamsRegistry)
MaterialSupplied ==
    IF RegisteredKty
    THEN DOMAIN kwargs \cap Range(JWKValuesRegistry(StrOf(kwargs["kty"])))
    ELSE {}
ExtSupplied == DOMAIN kwargs \ (MetaSupplied \cup MaterialSupplied)

\* construction failed with InvalidJWKValue and this message
FailedWith(msg) ==
    /\ phase = "failed"
    /\ result.err = "InvalidJWKValue"
    /\ result.args = <<msg>>

\* the operations a key_ops value names (a lone value names one)
OpsOf(v) == IF v.t = "list" THEN Range(v.v) ELSE {StrOf(v)}

\* key_ops as a sequence (a lone value is a one-element sequence)
OpsSeq(v) == IF v.t = "list" THEN v ELSE List(<<StrOf(v)>>)

HasRepeat(v) ==
    v.t = "list" /\ \E i, j \in DOMAIN v.v : i # j /\ v.v[i] = v.v[j]

Contradictory ==
    /\ Declared("use")
    /\ Declared("key_ops")
    /\ \/ /\ StrOf(kwargs["use"]) = "sig"
          /\ OpsOf(kwargs["key_ops"])
                 \cap {"encrypt", "decrypt", "wrapKey", "unwrapKey",
                       "deriveKey", "deriveBits"} # {}
       \/ /\ StrOf(kwargs["use"]) = "enc"
          /\ OpsOf(kwargs["key_ops"]) \cap {"sign", "verify"} # {}

ResolveOps ==
    {"sign", "verify", "encrypt", "decrypt", "wrapKey", "unwrapKey"}
PublicOps == {"verify", "encrypt", "wrapKey"}
PrivateOps == {"sign", "decrypt", "unwrapKey"}

Category(op) == IF op \in {"sign", "verify"} THEN "sig" ELSE "enc"

\* the last call was get_op_key for one of the operations in ops
Resolved(ops) ==
    /\ phase = "constructed"
    /\ result.call = "get_op_key"
    /\ result.operation.t = "str"
    /\ StrOf(result.operation) \in ops

----------------------------------------------------------------------------
(* C1: for a registered kty with at least one material field of that type,  *)
(* construction never fails because of unrecognized names, however many     *)
(* there are, and it puts every supplied name in exactly one of params      *)
(* (metadata names), material (the type's vocabulary) or extension (the     *)
(* rest, values verbatim).                                                  *)
C1_ClassifiesEveryName ==
    (RegisteredKty /\ MaterialSupplied # {}) =>
        /\ ~FailedWith(MsgUnknownParams)
        /\ phase = "constructed" =>
               /\ KeySet(params) = MetaSupplied
               /\ KeySet(key) = MaterialSupplied
               /\ KeySet(unknown) = ExtSupplied
               /\ \A n \in ExtSupplied : DictGet(unknown, n, None) = kwargs[n]

\* supporting fact: construction with two or more unrecognized names always
\* fails, with at most one it never fails on their account
C1_AtMostOneUnknown ==
    (RegisteredKty /\ MaterialSupplied # {}) =>
        (FailedWith(MsgUnknownParams) <=> Cardinality(ExtSupplied) >= 2)

(* C2: export of a constructed key decodes to exactly the supplied field    *)
(* mapping, and the key's params, material and extension are, after any     *)
(* sequence of export and get_op_key calls (raising or not), still the ones *)
(* construction gave it.                                                    *)
C2_ExportRoundTrip ==
    phase = "constructed" =>
        /\ LET r == JWK_init(DictOf(kwargs, FALSE))
           IN params = r.params /\ key = r.key /\ unknown = r.unknown
        /\ result.call = "export" =>
               /\ result.err = "none"
               /\ AsMap(json_decode(result.value)) = kwargs

C2_Witness ==
    /\ phase = "constructed"
    /\ result.call = "export"
    /\ raised
    /\ unknown # <<>>
    /\ result.err = "none"
    /\ AsMap(json_decode(result.value)) = kwargs

(* C3: construction with kty absent or unregistered fails with              *)
(* InvalidJWKType whatever else is supplied; with a registered kty and no   *)
(* material field of that type it fails with InvalidJWKValue; from kty plus *)
(* one or more material fields of that type it succeeds.                    *)
C3_KtyAndMaterial ==
    phase # "new" =>
        /\ ~RegisteredKty =>
               phase = "failed" /\ result.err = "InvalidJWKType"
        /\ (RegisteredKty /\ MaterialSupplied = {}) =>
               phase = "failed" /\ result.err = "InvalidJWKValue"
        /\ (RegisteredKty /\ MaterialSupplied # {}
            /\ DOMAIN kwargs = {"kty"} \cup MaterialSupplied) =>
               phase = "constructed"

C3_Witness ==
    /\ phase = "failed"
    /\ RegisteredKty
    /\ MaterialSupplied = {}
    /\ "n" \in DOMAIN kwargs
    /\ ExtSupplied = {"n"}
    /\ result.err = "InvalidJWKValue"
    /\ result.args = <<MsgNoKeyValues>>

(* C4: no constructed key has contradictory use and key_ops; with a         *)
(* registered kty a contradictory pair makes construction fail with         *)
(* InvalidJWKValue; the use/key_ops check rejects nothing else, and a       *)
(* non-contradictory pair with a duplicate-free key_ops list (such as       *)
(* use = sig, key_ops = [verify]) is constructed.                           *)
C4_UseKeyOpsConsistent ==
    /\ phase = "constructed" => ~Contradictory
    /\ (phase # "new" /\ RegisteredKty /\ Contradictory) =>
           phase = "failed" /\ result.err = "InvalidJWKValue"
    /\ FailedWith(MsgIncompatible) => Contradictory
    /\ (phase # "new" /\ RegisteredKty /\ MaterialSupplied # {}
        /\ ExtSupplied = {} /\ Declared("use") /\ Declared("key_ops")
        /\ kwargs["key_ops"].t = "list" /\ ~HasRepeat(kwargs["key_ops"])
        /\ ~Contradictory) =>
           phase = "constructed"

C4_Witness ==
    /\ FailedWith(MsgIncompatible)
    /\ Declared("use")
    /\ Declared("key_ops")
    /\ kwargs["use"] = Str("sig")
    /\ kwargs["key_ops"] = List(<<"verify", "deriveBits">>)

(* C5: construction fails for duplication exactly when key_ops names the    *)
(* same operation more than once: a list with a repeated name is rejected,  *)
(* and neither a list of distinct names nor a lone operation name is ever   *)
(* rejected as containing a duplicate.                                      *)
C5_DuplicateExactly ==
    /\ (phase # "new" /\ RegisteredKty /\ MaterialSupplied # {}
        /\ ExtSupplied = {} /\ Declared("key_ops")
        /\ HasRepeat(kwargs["key_ops"])) =>
           FailedWith(MsgDuplicate)
    /\ FailedWith(MsgDuplicate) => HasRepeat(kwargs["key_ops"])

\* C5_DuplicateExactly holds of every key_ops that is a list
C5_ListsOnly ==
    (Declared("key_ops") /\ kwargs["key_ops"].t = "list") =>
        C5_DuplicateExactly

(* C6: when a constructed key declares key_ops (a list, the empty list      *)
(* included, or a lone value) and the requested operation is not among      *)
(* them, get_op_key raises InvalidJWKOperation carrying the operation and   *)
(* the declared list (the use check permitting); when key_ops is absent no  *)
(* operation is rejected on its account.                                    *)
C6_OperationNotDeclared ==
    Resolved(ResolveOps) =>
        /\ (/\ Declared("key_ops")
            /\ StrOf(result.operation) \notin OpsOf(kwargs["key_ops"])
            /\ (Declared("use") =>
                    StrOf(kwargs["use"]) = Category(StrOf(result.operation)))) =>
               /\ result.err = "InvalidJWKOperation"
               /\ result.args = <<result.operation, OpsSeq(kwargs["key_ops"])>>
        /\ ~Declared("key_ops") => result.err # "InvalidJWKOperation"

\* C6_OperationNotDeclared holds of every key_ops but the empty list
C6_NonEmptyOnly ==
    (Declared("key_ops") => kwargs["key_ops"] # List(<<>>)) =>
        C6_OperationNotDeclared

(* C7: when a constructed key declares use and the requested operation's    *)
(* category differs from it, get_op_key raises InvalidJWKUsage carrying the *)
(* requested and the declared usage, whatever material the key holds.       *)
C7_UsageDiffers ==
    (/\ Resolved(ResolveOps)
     /\ Declared("use")
     /\ StrOf(kwargs["use"]) # Category(StrOf(result.operation))) =>
        /\ result.err = "InvalidJWKUsage"
        /\ result.args = <<Str(Category(StrOf(result.operation))), kwargs["use"]>>

\* C7_UsageDiffers holds of every declared use but the empty one
C7_NonEmptyOnly ==
    (Declared("use") => StrOf(kwargs["use"]) # "") => C7_UsageDiffers

(* C8: for an RSA key that declares neither use nor key_ops: with material  *)
(* exactly {n, e}, verify, encrypt and wrapKey resolve; sign, decrypt and   *)
(* unwrapKey fail with InvalidJWKValue whenever one of p, q, d, dp, dq, qi, *)
(* n, e is absent.                                                          *)
C8_RSADispatch ==
    (/\ Resolved(ResolveOps)
     /\ kwargs["kty"] = Str("RSA")
     /\ ~Declared("use")
     /\ ~Declared("key_ops")) =>
        /\ (StrOf(result.operation) \in PublicOps
            /\ DOMAIN kwargs = {"kty", "n", "e"}) =>
               result.err = "none"
        /\ (StrOf(result.operation) \in PrivateOps
            /\ ~(Range(JWKValuesRegistry("RSA")) \subseteq DOMAIN kwargs)) =>
               result.err = "InvalidJWKValue"

\* supporting fact: what the private branch raises is KeyError
C8_KeyErrorInstead ==
    (/\ Resolved(PrivateOps)
     /\ kwargs["kty"] = Str("RSA")
     /\ ~Declared("use")
     /\ ~Declared("key_ops")
     /\ ~(Range(JWKValuesRegistry("RSA")) \subseteq DOMAIN kwargs)) =>
        result.err = "KeyError"

\* an EC key with x and y, asked for public material, past the constraint
\* check
ECPublicResolved ==
    /\ Resolved(PublicOps)
    /\ kwargs["kty"] = Str("EC")
    /\ {"x", "y"} \subseteq DOMAIN kwargs
    /\ result.err \notin {"InvalidJWKUsage", "InvalidJWKOperation"}

CrvRegistered ==
    Declared("crv") /\ StrOf(kwargs["crv"]) \in {"P-256", "P-384", "P-521"}

\* a hint that get_curve takes as supplied
HintSupplied == Truthy(result.arg)

----------------------------------------------------------------------------
\* the members whose declared kid is the given one
Matching(kid) ==
    {e \in jwkset : /\ DictHas(heap[e.v].params, "kid")
                    /\ PyEq(DictGet(heap[e.v].params, "kid", None), kid)}

(* C10: every member of the set is a JWK that add accepted earlier and      *)
(* nothing accepted has left the set; add of a non-key raises TypeError and *)
(* leaves the set as it was, add of a JWK makes it a member; get_key leaves *)
(* the set as it was and returns a member whose kid is the argument when    *)
(* there is one, and None otherwise.                                        *)
C10_Collection ==
    /\ \A e \in jwkset : e.t = "JWK" /\ e \in inserted
    /\ inserted \subseteq jwkset
    /\ setResult.call = "add" =>
           IF setResult.elem.t = "JWK"
           THEN /\ setResult.err = "none"
                /\ jwkset = setResult.before \cup {setResult.elem}
           ELSE /\ setResult.err = "TypeError"
                /\ jwkset = setResult.before
    /\ setResult.call = "get_key" =>
           /\ jwkset = setResult.before
           /\ setResult.err = "none"
           /\ IF Matching(setResult.elem) # {}
              THEN /\ setResult.value.t = "JWK"
                   /\ setResult.value \in Matching(setResult.elem)
              ELSE setResult.value.t = "none"

C10_Witness ==
    /\ setResult.call = "get_key"
    /\ setResult.value.t = "JWK"
    /\ Cardinality(Matching(setResult.elem)) = 2
    /\ Cardinality(jwkset) = 3

====
